---- MODULE Spec2Model ----
(***************************************************************************)
(* Moving-average-crossover grid search: the job producer (push_jobs.py),  *)
(* the Azure queue it fills, the workers that drain it (worker.py) and the *)
(* result container they write to.                                         *)
(***************************************************************************)
EXTENDS Integers, Sequences, FiniteSets, TLC

VARIABLES
    fast_range,      \* push_jobs.FAST_RANGE, an increasing list of windows
    slow_range,      \* push_jobs.SLOW_RANGE
    coins,           \* what get_available_coins() returned
    jobs,            \* the list generate_jobs() returned
    pubPc,           \* the producer's position
    pubIdx,          \* index (1-based) of the next job push_jobs_to_queue sends
    sent,            \* payloads accepted by send_message, in order
    queue,           \* the messages of the queue "backtest-jobs"
    nextId,          \* id the queue gives the next message
    results,         \* blobs of the container "backtest-results"
    pc,              \* each worker's position in worker_loop
    message,         \* each worker's local `message`
    job,             \* each worker's local `job`
    result,          \* each worker's local `result`
    jobs_processed,  \* each worker's local `jobs_processed`
    lastPoll,        \* what each worker's most recent receive_messages gave
    failure,         \* the step that failed in each worker's latest iteration
    deleted,         \* the messages removed by delete_message, and by which worker
    faults,          \* transient faults of queue, data store and result store so far
    foreign,         \* messages the queue held before the producer ran
    frames,          \* run_backtest: the DataFrames `prices` and `df`
    windows,         \* run_backtest: its arguments fast_ma and slow_ma
    btPc,            \* run_backtest: the position of the call
    rowsDone,        \* run_backtest: rows of df the loop has been through
    scanState,       \* run_backtest: its locals position, entry_price, trades
    returned,        \* run_backtest: the dict the latest call returned
    again,           \* run_backtest: a call has returned before this one
    counts           \* run_backtest: positions opened and closed in this call

vars == <<fast_range, slow_range, coins, jobs, pubPc, pubIdx, sent, queue, nextId,
          results, pc, message, job, result, jobs_processed, lastPoll,
          failure, deleted, faults, foreign,
          frames, windows, btPc, rowsDone, scanState, returned, again, counts>>

pubVars == <<fast_range, slow_range, coins, jobs, pubPc, pubIdx, sent>>
workerVars == <<pc, message, job, result, jobs_processed, lastPoll, failure>>
btVars == <<frames, windows, btPc, rowsDone, scanState, returned, again, counts>>

-----------------------------------------------------------------------------
(* Bounds of the model *)

FastStop == 11        \* FAST_RANGE is range(5, FastStop, 5)   (the program: 101)
SlowStop == 21        \* SLOW_RANGE is range(20, SlowStop, 10) (the program: 301)
MaxFaults == 1        \* transient faults the environment injects in one run
MaxWindow == 3        \* largest window of the ranges generate_jobs is tried on
MaxNumber == 40       \* largest number json.loads is given
MaxLen == 5           \* longest price series run_backtest is tried on

(* Program constants *)

VisibilityTimeout == 300
FeePerMille == 1      \* TRADING_FEE = 0.001, in thousandths

Workers == {"w1", "w2"}
NoMessage == [id |-> 0, content |-> <<>>]
NoJob == [none |-> TRUE]
NoResult == <<>>

-----------------------------------------------------------------------------
(* Python helpers *)

\* list(range(start, stop, step)) for step > 0
PyRange(start, stop, step) ==
    IF stop <= start THEN <<>>
    ELSE [k \in 1..((stop - start + step - 1) \div step) |-> start + (k - 1) * step]

\* itertools.product(a, b): the pairs, the index of b running fastest
Product(a, b) ==
    [k \in 1..(Len(a) * Len(b)) |->
        <<a[((k - 1) \div Len(b)) + 1], b[((k - 1) % Len(b)) + 1]>>]

GCDOf[a \in Nat, b \in Nat] == IF b = 0 THEN a ELSE GCDOf[b, a % b]
GCD(a, b) == GCDOf[a, b]

Abs(n) == IF n < 0 THEN -n ELSE n

FAST_RANGE == PyRange(5, FastStop, 5)
SLOW_RANGE == PyRange(20, SlowStop, 10)

-----------------------------------------------------------------------------
(* json.dumps / json.loads.  A JSON text is the sequence of its tokens:      *)
(* "{", then for each member the quoted key and the value (a quoted string  *)
(* or a decimal number), then "}".                                          *)

Quote(s) == "\"" \o s \o "\""

CoinNames == {"BTC", "ETH"}
Keys == {"coin", "fast_ma", "slow_ma", "total_return", "num_trades", "win_rate"}

\* a value is [str |-> s] or [num |-> n] or [frac |-> <<n, d>>] (a float)
DumpValue(v) ==
    IF "str" \in DOMAIN v THEN Quote(v.str)
    ELSE IF "num" \in DOMAIN v THEN ToString(v.num)
    ELSE ToString(v.frac[1]) \o "/" \o ToString(v.frac[2])

\* json.dumps(d), d a dict given as the sequence of its <<key, value>> items
DumpItems(items) ==
    LET dump[k \in 0..Len(items)] ==
            IF k = 0 THEN <<>>
            ELSE dump[k - 1] \o <<Quote(items[k][1]), DumpValue(items[k][2])>>
    IN  dump[Len(items)]

JsonDumps(items) == <<"{">> \o DumpItems(items) \o <<"}">>

IsKeyToken(t) == \E k \in Keys : Quote(k) = t
IsStrToken(t) == \E s \in CoinNames : Quote(s) = t
IsNumToken(t) == \E n \in 0..MaxNumber : ToString(n) = t

LoadKey(t) == CHOOSE k \in Keys : Quote(k) = t
LoadValue(t) ==
    IF IsStrToken(t) THEN [str |-> CHOOSE s \in CoinNames : Quote(s) = t]
    ELSE [num |-> CHOOSE n \in 0..MaxNumber : ToString(n) = t]

\* json.loads raises on a text that is no JSON object
JsonValid(text) ==
    /\ Len(text) >= 2
    /\ Len(text) % 2 = 0
    /\ text[1] = "{"
    /\ text[Len(text)] = "}"
    /\ \A k \in 1..((Len(text) - 2) \div 2) :
          /\ IsKeyToken(text[2 * k])
          /\ IsStrToken(text[2 * k + 1]) \/ IsNumToken(text[2 * k + 1])

\* json.loads(text): the dict, a function from keys to values; of a repeated
\* key the last member wins
JsonLoads(text) ==
    LET n == (Len(text) - 2) \div 2
        ks == {LoadKey(text[2 * k]) : k \in 1..n}
        last(key) == CHOOSE k \in 1..n :
                        /\ LoadKey(text[2 * k]) = key
                        /\ \A k2 \in 1..n : LoadKey(text[2 * k2]) = key => k2 <= k
    IN  [key \in ks |-> LoadValue(text[2 * last(key) + 1])]

-----------------------------------------------------------------------------
(* push_jobs.py: generate_jobs *)

JobDict(coin, fast, slow) == [coin |-> coin, fast_ma |-> fast, slow_ma |-> slow]

\* the inner loop: for fast, slow in product(FAST_RANGE, SLOW_RANGE): if fast < slow
KeepPairLe(p) == p[1] <= p[2]
KeepPair(p) == p[1] < p[2]

JobsOfCoin(coin, fr, sr) ==
    LET pairs == SelectSeq(Product(fr, sr), KeepPair)
    IN  [k \in 1..Len(pairs) |-> JobDict(coin, pairs[k][1], pairs[k][2])]

\* the outer loop `for coin in coins`, jobs after the first k coins
generate_jobs(cs, fr, sr) ==
    LET gen[k \in 0..Len(cs)] ==
            IF k = 0 THEN <<>> ELSE gen[k - 1] \o JobsOfCoin(cs[k], fr, sr)
    IN  gen[Len(cs)]

\* json.dumps(job) of push_jobs_to_queue
JobPayload(j) ==
    JsonDumps(<< <<"coin", [str |-> j.coin]>>,
                 <<"fast_ma", [num |-> j.fast_ma]>>,
                 <<"slow_ma", [num |-> j.slow_ma]>> >>)

-----------------------------------------------------------------------------
(* Floats are exact fractions <<numerator, denominator>>, denominator > 0 *)

Frac(n, d) ==
    LET g == GCD(Abs(n), Abs(d))
        sgn == IF d < 0 THEN -1 ELSE 1
    IN  IF g = 0 THEN <<0, 1>> ELSE <<sgn * (n \div g), sgn * (d \div g)>>

FMul(a, b) == Frac(a[1] * b[1], a[2] * b[2])
FAdd(a, b) == Frac(a[1] * b[2] + b[1] * a[2], a[2] * b[2])
FSub(a, b) == Frac(a[1] * b[2] - b[1] * a[2], a[2] * b[2])
FDiv(a, b) == Frac(a[1] * b[2], a[2] * b[1])
FPos(a) == a[1] > 0

-----------------------------------------------------------------------------
(* worker.py: run_backtest.  prices is the column `close`, one entry per row *)

\* df['close'].rolling(window=w).mean() at row i: defined once w rows exist
HasMean(i, w) == w >= 1 /\ i >= w

SumRange(close, from, to) ==
    LET sum[i \in (from - 1)..to] == IF i < from THEN 0 ELSE close[i] + sum[i - 1]
    IN  IF from > to THEN 0 ELSE sum[to]

\* a window that ends one period after period i where there is one
RollingMeanAhead(close, i, w) ==
    LET last == IF i < Len(close) THEN i + 1 ELSE i
    IN  Frac(SumRange(close, last - w + 1, last), w)
RollingMean(close, i, w) == Frac(SumRange(close, i - w + 1, i), w)

\* the rows df.dropna() keeps: those where both means are defined
KeptRow(i, fast_ma, slow_ma) == HasMean(i, fast_ma) /\ HasMean(i, slow_ma)

KeptRows(close, fast_ma, slow_ma) ==
    {i \in 1..Len(close) : KeptRow(i, fast_ma, slow_ma)}

\* df['signal']: 1 where fast > slow, -1 where fast < slow, else 0
Signal(close, i, fast_ma, slow_ma) ==
    LET d == FSub(RollingMean(close, i, fast_ma), RollingMean(close, i, slow_ma))
    IN  IF d[1] > 0 THEN 1 ELSE IF d[1] < 0 THEN -1 ELSE 0

ScanInit == [position |-> 0, entry_price |-> <<0, 1>>, trades |-> <<>>]

\* the values of (position, entry_price, trades)
ScanStates ==
    [position : {0, 1}, entry_price : Int \X Int, trades : Seq(Int \X Int)]

\* the body of the loop with `position = 0` left out of the elif branch
ScanRowStaysLong(st, close, i, fast_ma, slow_ma) ==
    LET sig == Signal(close, i, fast_ma, slow_ma)
    IN  IF sig = 1 /\ st.position = 0
        THEN [st EXCEPT !.position = 1,
                        !.entry_price = Frac(close[i] * (1000 + FeePerMille), 1000)]
        ELSE IF sig = -1 /\ st.position = 1
        THEN LET exit_price == Frac(close[i] * (1000 - FeePerMille), 1000)
                 pnl == FDiv(FSub(exit_price, st.entry_price), st.entry_price)
             IN  [st EXCEPT !.trades = Append(@, pnl)]
        ELSE st
\* one pass of the body of `for i, row in df.iterrows()`
ScanRow(st, close, i, fast_ma, slow_ma) ==
    LET sig == Signal(close, i, fast_ma, slow_ma)
    IN  IF sig = 1 /\ st.position = 0
        THEN [st EXCEPT !.position = 1,
                        !.entry_price = Frac(close[i] * (1000 + FeePerMille), 1000)]
        ELSE IF sig = -1 /\ st.position = 1
        THEN LET exit_price == Frac(close[i] * (1000 - FeePerMille), 1000)
                 pnl == FDiv(FSub(exit_price, st.entry_price), st.entry_price)
             IN  [st EXCEPT !.position = 0, !.trades = Append(@, pnl)]
        ELSE st

\* the state of the scan after the kept rows up to row `upto`
ScanTo(close, upto, fast_ma, slow_ma) ==
    LET row[st \in ScanStates, i \in 1..Len(close)] ==
            ScanRow(st, close, i, fast_ma, slow_ma)
        scan[i \in 0..upto] ==
            IF i = 0 THEN ScanInit
            ELSE IF KeptRow(i, fast_ma, slow_ma) THEN row[scan[i - 1], i]
            ELSE scan[i - 1]
    IN  scan[upto]

\* np.prod([1 + t for t in trades])
ProdOnePlus(trades) ==
    LET prod[k \in 0..Len(trades)] ==
            IF k = 0 THEN <<1, 1>> ELSE FMul(prod[k - 1], FAdd(<<1, 1>>, trades[k]))
    IN  prod[Len(trades)]

WinsTwice(trades) == 2 * Cardinality({k \in 1..Len(trades) : FPos(trades[k])})
Wins(trades) == Cardinality({k \in 1..Len(trades) : FPos(trades[k])})

\* the neutral dict with win_rate computed as 0 / len(trades)
NeutralUndefined == [total_return |-> <<0, 1>>, num_trades |-> 0, win_rate |-> <<0, 0>>]
NeutralResult == [total_return |-> <<0, 1>>, num_trades |-> 0, win_rate |-> <<0, 1>>]

\* run_backtest with `trades` kept from one call to the next: the trades of
\* the runs already stored are counted again
run_backtestKeepsTrades(close, fast_ma, slow_ma) ==
    LET trades == IF KeptRows(close, fast_ma, slow_ma) = {} THEN <<>>
                  ELSE ScanTo(close, Len(close), fast_ma, slow_ma).trades
    IN  IF Len(trades) + Cardinality(results) = 0 THEN NeutralResult
        ELSE [total_return |-> FSub(ProdOnePlus(trades), <<1, 1>>),
              num_trades |-> Len(trades) + Cardinality(results),
              win_rate |-> Frac(Wins(trades), Len(trades) + Cardinality(results))]
run_backtest(close, fast_ma, slow_ma) ==
    IF KeptRows(close, fast_ma, slow_ma) = {} THEN NeutralResult
    ELSE LET trades == ScanTo(close, Len(close), fast_ma, slow_ma).trades
         IN  IF Len(trades) = 0 THEN NeutralResult
             ELSE [total_return |-> FSub(ProdOnePlus(trades), <<1, 1>>),
                   num_trades |-> Len(trades),
                   win_rate |-> Frac(Wins(trades), Len(trades))]

-----------------------------------------------------------------------------
(* worker.py: one call of run_backtest, statement by statement.  A DataFrame *)
(* is [close, columns, index]: its close column, the names of its columns    *)
(* and the labels of its rows; `frames` holds the frame of each name         *)

\* what load_price_data returns: df[["timestamp", "close"]]
PricesFrame(close) ==
    [close |-> close, columns |-> {"timestamp", "close"},
     index |-> [i \in 1..Len(close) |-> i]]

NoFrame == PricesFrame(<<>>)

\* prices.copy(): the name of the frame df is bound to
Copy(name) == "df"

\* df['fast'] = ...; df['slow'] = ...: assignment of two columns to frame f
WithMeans(f) == [f EXCEPT !.columns = @ \cup {"fast", "slow"}]

\* f.dropna(): a new frame with the rows of f where both means are defined
DropNa(f, fast_ma, slow_ma) ==
    [f EXCEPT !.index = SelectSeq(f.index, LAMBDA i : KeptRow(i, fast_ma, slow_ma))]

\* lines 67-69: position = 0; entry_price = 0; trades = []
ScanStartKeep(st) == st
ScanStart(st) == ScanInit

\* the dict with total_return the sum of the trade returns
MetricsSum(trades) ==
    LET sum[k \in 0..Len(trades)] ==
            IF k = 0 THEN <<0, 1>> ELSE FAdd(sum[k - 1], trades[k])
    IN  [total_return |-> sum[Len(trades)],
         num_trades |-> Len(trades),
         win_rate |-> Frac(Wins(trades), Len(trades))]

\* lines 88-95: the dict of a call that recorded trades
Metrics(trades) ==
    [total_return |-> FSub(ProdOnePlus(trades), <<1, 1>>),
     num_trades |-> Len(trades),
     win_rate |-> Frac(Wins(trades), Len(trades))]

\* no call of run_backtest is under way; `prices` holds the closes `close`
BtIdle(close) ==
    /\ frames = [prices |-> PricesFrame(close), df |-> NoFrame]
    /\ windows = [fast_ma |-> 1, slow_ma |-> 1]
    /\ btPc = "idle"
    /\ rowsDone = 0
    /\ scanState = ScanInit
    /\ returned = NeutralResult
    /\ again = FALSE
    /\ counts = [opens |-> 0, closes |-> 0]

\* a step of run_backtest touches nothing of the producer, queue and workers
BtUnchanged ==
    /\ UNCHANGED pubVars
    /\ UNCHANGED workerVars
    /\ UNCHANGED <<queue, nextId, results, deleted, faults, foreign>>

\* lines 49-69: df = prices.copy(), the two rolling means, dropna, the early
\* return on an empty df, the signal column and the locals of the scan
BtStart(fast_ma, slow_ma) ==
    /\ btPc \in {"idle", "returned"}
    /\ again' = (btPc = "returned")
    /\ windows' = [fast_ma |-> fast_ma, slow_ma |-> slow_ma]
    /\ counts' = [opens |-> 0, closes |-> 0]
    /\ LET d == Copy("prices")
           f1 == [frames EXCEPT ![d] = WithMeans(frames["prices"])]
           kept == DropNa(f1[d], fast_ma, slow_ma)
       IN  IF Len(kept.index) = 0
           THEN /\ frames' = [f1 EXCEPT !["df"] = kept]
                /\ returned' = NeutralResult
                /\ btPc' = "returned"
                /\ UNCHANGED <<rowsDone, scanState>>
           ELSE /\ frames' = [f1 EXCEPT !["df"] =
                                 [kept EXCEPT !.columns = @ \cup {"signal"}]]
                /\ scanState' = ScanStart(scanState)
                /\ rowsDone' = 0
                /\ btPc' = "scan"
                /\ UNCHANGED returned
    /\ BtUnchanged

\* lines 71-79: one pass of `for i, row in df.iterrows()`
BtRow ==
    /\ btPc = "scan"
    /\ rowsDone < Len(frames["df"].index)
    /\ scanState' = ScanRow(scanState, frames["df"].close,
                            frames["df"].index[rowsDone + 1],
                            windows.fast_ma, windows.slow_ma)
    /\ rowsDone' = rowsDone + 1
    /\ counts' = [opens |-> counts.opens + IF scanState'.position > scanState.position
                                            THEN 1 ELSE 0,
                  closes |-> counts.closes + IF scanState'.position < scanState.position
                                              THEN 1 ELSE 0]
    /\ UNCHANGED <<frames, windows, btPc, returned, again>>
    /\ BtUnchanged

\* lines 81-95: the loop is over; the neutral dict or the metrics
BtReturn ==
    /\ btPc = "scan"
    /\ rowsDone = Len(frames["df"].index)
    /\ returned' = IF Len(scanState.trades) = 0 THEN NeutralResult
                   ELSE Metrics(scanState.trades)
    /\ btPc' = "returned"
    /\ UNCHANGED <<frames, windows, rowsDone, scanState, again, counts>>
    /\ BtUnchanged

-----------------------------------------------------------------------------
(* worker.py: the data container, process_job and save_result *)

\* the parquet files of the container "raw-data": coin -> closes, oldest first
PriceData ==
    [c \in {"BTC"} |->
        [i \in 1..21 |-> IF i \in 11..15 THEN 9 ELSE IF i <= 19 THEN 10
                          ELSE IF i = 20 THEN 12 ELSE 1]]

\* what process_job's job["coin"], job["fast_ma"], job["slow_ma"] need
JobKeys == {"coin", "fast_ma", "slow_ma"}

\* the dict process_job returns: run_backtest's dict, then coin, fast_ma, slow_ma
process_job(j) ==
    LET coin == j["coin"].str
        fast_ma == j["fast_ma"].num
        slow_ma == j["slow_ma"].num
        r == run_backtest(PriceData[coin], fast_ma, slow_ma)
    IN  << <<"total_return", [frac |-> r.total_return]>>,
           <<"num_trades", [num |-> r.num_trades]>>,
           <<"win_rate", [frac |-> r.win_rate]>>,
           <<"coin", [str |-> coin]>>,
           <<"fast_ma", [num |-> fast_ma]>>,
           <<"slow_ma", [num |-> slow_ma]>> >>

\* result[key] of a dict given as its items
Get(items, key) == items[CHOOSE k \in 1..Len(items) : items[k][1] = key][2]

\* f"{result['coin']}_{result['fast_ma']}_{result['slow_ma']}.json"
BlobNameCoinOnly(r) == Get(r, "coin").str \o ".json"
BlobName(r) ==
    Get(r, "coin").str \o "_" \o ToString(Get(r, "fast_ma").num) \o "_"
        \o ToString(Get(r, "slow_ma").num) \o ".json"

\* blob_client.upload_blob(data, overwrite=True) on a container, a set of blobs
UploadKeepOld(container, name, data) ==
    container \cup {[name |-> name, data |-> data]}
UploadBlob(container, name, data) ==
    {b \in container : b.name # name} \cup {[name |-> name, data |-> data]}

save_result(container, r) == UploadBlob(container, BlobName(r), JsonDumps(r))

-----------------------------------------------------------------------------
(* The queue "backtest-jobs".  A message is                                  *)
(* [id, content, lease, owner]: lease is the time left of its visibility     *)
(* timeout (0: visible), owner the worker whose pop receipt is the valid one *)

NoOwner == "none"

\* a queue that hands out a message whatever its visibility timeout
VisibleAll(q) == q
Visible(q) == {m \in q : m.lease = 0}

\* queue_client.send_message(content)
SendMessage(q, id, content) ==
    q \cup {[id |-> id, content |-> content, lease |-> 0, owner |-> NoOwner]}

\* receive_messages with visibility_timeout=0: m is not hidden
LeaseNoTimeout(q, m, w) == (q \ {m}) \cup {[m EXCEPT !.owner = w]}

\* receive_messages(max_messages=1, visibility_timeout=300) handing out m to w
Lease(q, m, w) ==
    (q \ {m}) \cup {[m EXCEPT !.lease = VisibilityTimeout, !.owner = w]}

\* delete_message(message) succeeds while message's pop receipt is the valid one
CanDelete(q, msg, w) == \E m \in q : m.id = msg.id /\ m.owner = w

DeleteMessage(q, msg) == {m \in q : m.id # msg.id}

\* the visibility timeout of message m runs out
ExpireLease(q, m) == (q \ {m}) \cup {[m EXCEPT !.lease = 0]}

-----------------------------------------------------------------------------
(* Initial state: the producer and the workers are about to run, the result  *)
(* container is empty, the queue is empty or holds one message that did not  *)
(* come from the producer                                                    *)

AvailableCoins == <<"BTC">>

ForeignPayloads ==
    { <<"junk">>,
      <<"{", Quote("coin"), Quote("BTC"), Quote("fast_ma"), Quote("BTC"),
             Quote("slow_ma"), "20", "}">> }

WorkerInit ==
    /\ pc = [w \in Workers |-> "poll"]
    /\ message = [w \in Workers |-> NoMessage]
    /\ job = [w \in Workers |-> NoJob]
    /\ result = [w \in Workers |-> NoResult]
    /\ jobs_processed = [w \in Workers |-> 0]
    /\ lastPoll = [w \in Workers |-> "none"]
    /\ failure = [w \in Workers |-> "none"]

ProducerInit ==
    /\ jobs = <<>>
    /\ pubPc = "main"
    /\ pubIdx = 1
    /\ sent = <<>>

StoreInit ==
    /\ results = {}
    /\ deleted = {}
    /\ faults = 0

Init ==
    /\ fast_range = FAST_RANGE
    /\ slow_range = SLOW_RANGE
    /\ coins = AvailableCoins
    /\ ProducerInit
    /\ StoreInit
    /\ \/ queue = {} /\ foreign = 0 /\ nextId = 1
       \/ /\ \E content \in ForeignPayloads : queue = SendMessage({}, 1, content)
          /\ foreign = 1
          /\ nextId = 2
    /\ WorkerInit
    /\ BtIdle(<<>>)

-----------------------------------------------------------------------------
(* push_jobs.py: main and push_jobs_to_queue *)

\* main: coins = get_available_coins(); exit(1) if none; jobs = generate_jobs(coins)
Main ==
    /\ pubPc = "main"
    /\ IF coins = <<>>
       THEN /\ pubPc' = "exit"
            /\ jobs' = jobs
       ELSE /\ jobs' = generate_jobs(coins, fast_range, slow_range)
            /\ pubPc' = IF jobs' = <<>> THEN "done" ELSE "push"
    /\ UNCHANGED <<fast_range, slow_range, coins, pubIdx, sent>>
    /\ UNCHANGED <<queue, nextId, results, deleted, faults, foreign>>
    /\ UNCHANGED workerVars
    /\ UNCHANGED btVars

\* where the loop `for i, job in enumerate(jobs)` stands after job number i
AfterSendStop(i) == "done"
AfterSend(i) == IF i >= Len(jobs) THEN "done" ELSE "push"

\* one pass of the loop: queue_client.send_message(json.dumps(job)) succeeds
PushJob ==
    /\ pubPc = "push"
    /\ queue' = SendMessage(queue, nextId, JobPayload(jobs[pubIdx]))
    /\ nextId' = nextId + 1
    /\ sent' = Append(sent, JobPayload(jobs[pubIdx]))
    /\ pubIdx' = pubIdx + 1
    /\ pubPc' = AfterSend(pubIdx)
    /\ UNCHANGED <<fast_range, slow_range, coins, jobs>>
    /\ UNCHANGED <<results, deleted, faults, foreign>>
    /\ UNCHANGED workerVars
    /\ UNCHANGED btVars

\* send_message raises: nothing catches it, push_jobs_to_queue and main end
PushJobFails ==
    /\ pubPc = "push"
    /\ faults < MaxFaults
    /\ faults' = faults + 1
    /\ pubPc' = "failed"
    /\ UNCHANGED <<fast_range, slow_range, coins, jobs, pubIdx, sent>>
    /\ UNCHANGED <<queue, nextId, results, deleted, foreign>>
    /\ UNCHANGED workerVars
    /\ UNCHANGED btVars

Producer == Main \/ PushJob \/ PushJobFails

-----------------------------------------------------------------------------
(* The queue's clock *)

\* 300 seconds have passed since message m was handed out
Expire ==
    /\ \E m \in queue :
          /\ m.lease > 0
          /\ queue' = ExpireLease(queue, m)
    /\ UNCHANGED pubVars
    /\ UNCHANGED <<nextId, results, deleted, faults, foreign>>
    /\ UNCHANGED workerVars
    /\ UNCHANGED btVars

-----------------------------------------------------------------------------
(* worker.py: worker_loop.  One action per call that reads or writes the     *)
(* queue or the result container; the steps between two such calls touch     *)
(* only the worker's locals and the read-only data container, and belong to  *)
(* the action of the call before them.  `message`, `job` and `result` are    *)
(* dead once a pass of the loop ends (the next pass assigns each before it   *)
(* reads it): the end of a pass forgets them.                                *)

Forget(w) ==
    /\ message' = [message EXCEPT ![w] = NoMessage]
    /\ job' = [job EXCEPT ![w] = NoJob]
    /\ result' = [result EXCEPT ![w] = NoResult]

\* where `if message is None` sends the loop
OnEmptyPollStay == "poll"
OnEmptyPoll == "terminated"

\* lines 144-153: receive_messages gives no message: print, break
PollEmpty(w) ==
    /\ pc[w] = "poll"
    /\ Visible(queue) = {}
    /\ pc' = [pc EXCEPT ![w] = OnEmptyPoll]
    /\ Forget(w)
    /\ lastPoll' = [lastPoll EXCEPT ![w] = "empty"]
    /\ failure' = [failure EXCEPT ![w] = "none"]
    /\ UNCHANGED jobs_processed
    /\ UNCHANGED <<queue, nextId>>
    /\ UNCHANGED <<results, deleted, faults, foreign>>
    /\ UNCHANGED pubVars
    /\ UNCHANGED btVars

\* lines 144-147 raise (the request fails): outside the try, worker_loop ends
PollFails(w) ==
    /\ pc[w] = "poll"
    /\ faults < MaxFaults
    /\ faults' = faults + 1
    /\ pc' = [pc EXCEPT ![w] = "crashed"]
    /\ lastPoll' = [lastPoll EXCEPT ![w] = "error"]
    /\ failure' = [failure EXCEPT ![w] = "none"]
    /\ Forget(w)
    /\ UNCHANGED jobs_processed
    /\ UNCHANGED <<queue, nextId>>
    /\ UNCHANGED <<results, deleted, foreign>>
    /\ UNCHANGED pubVars
    /\ UNCHANGED btVars

\* lines 171-174: except Exception: print, continue.  The message is not
\* deleted and nothing is counted
ExceptBreak(w, step) ==
    /\ pc' = [pc EXCEPT ![w] = "terminated"]
    /\ failure' = [failure EXCEPT ![w] = step]
    /\ Forget(w)
    /\ UNCHANGED <<jobs_processed, deleted>>
\* the handler with the count of lines 168 in it
ExceptCounts(w, step) ==
    /\ pc' = [pc EXCEPT ![w] = "poll"]
    /\ failure' = [failure EXCEPT ![w] = step]
    /\ Forget(w)
    /\ jobs_processed' = [jobs_processed EXCEPT ![w] = @ + 1]
    /\ UNCHANGED deleted
Except(w, step) ==
    /\ pc' = [pc EXCEPT ![w] = "poll"]
    /\ failure' = [failure EXCEPT ![w] = step]
    /\ Forget(w)
    /\ UNCHANGED <<jobs_processed, deleted>>

\* the step of process_job that raises on job j, "none" if none does:
\* job["coin"], job["fast_ma"], job["slow_ma"] (KeyError), load_price_data
\* (no such parquet file), run_backtest (a window that is no number)
ProcessError(j) ==
    IF ~(JobKeys \subseteq DOMAIN j) THEN "key"
    ELSE IF "str" \notin DOMAIN j["coin"] \/ j["coin"].str \notin DOMAIN PriceData
    THEN "load"
    ELSE IF "num" \notin DOMAIN j["fast_ma"] \/ "num" \notin DOMAIN j["slow_ma"]
    THEN "compute"
    ELSE "none"

\* the step of lines 157-160 that raises on a message's content
TryError(content) ==
    IF ~JsonValid(content) THEN "decode" ELSE ProcessError(JsonLoads(content))

\* the line of the try block that follows process_job
AfterProcessSkipSave == "delete"
AfterProcess == "save"

\* lines 144-160: receive_messages gives one visible message and hides it;
\* job = json.loads(message.content); result = process_job(blob_service, job)
PollMessage(w) ==
    /\ pc[w] = "poll"
    /\ \E m \in Visible(queue) :
          /\ queue' = Lease(queue, m, w)
          /\ IF TryError(m.content) = "none"
             THEN /\ message' = [message EXCEPT ![w] =
                                    [id |-> m.id, content |-> m.content]]
                  /\ job' = [job EXCEPT ![w] = JsonLoads(m.content)]
                  /\ result' = [result EXCEPT ![w] = process_job(JsonLoads(m.content))]
                  /\ pc' = [pc EXCEPT ![w] = AfterProcess]
                  /\ failure' = [failure EXCEPT ![w] = "none"]
                  /\ UNCHANGED <<jobs_processed, deleted>>
             ELSE Except(w, TryError(m.content))
    /\ lastPoll' = [lastPoll EXCEPT ![w] = "message"]
    /\ UNCHANGED nextId
    /\ UNCHANGED <<results, faults, foreign>>
    /\ UNCHANGED pubVars
    /\ UNCHANGED btVars

\* lines 144-160, the download of load_price_data failing
LoadFails(w) ==
    /\ pc[w] = "poll"
    /\ faults < MaxFaults
    /\ \E m \in Visible(queue) :
          /\ JsonValid(m.content)
          /\ JobKeys \subseteq DOMAIN JsonLoads(m.content)
          /\ queue' = Lease(queue, m, w)
    /\ Except(w, "load")
    /\ lastPoll' = [lastPoll EXCEPT ![w] = "message"]
    /\ faults' = faults + 1
    /\ UNCHANGED nextId
    /\ UNCHANGED <<results, foreign>>
    /\ UNCHANGED pubVars
    /\ UNCHANGED btVars

\* line 163: save_result(blob_service, result)
Save(w) ==
    /\ pc[w] = "save"
    /\ results' = save_result(results, result[w])
    /\ pc' = [pc EXCEPT ![w] = "delete"]
    /\ UNCHANGED <<message, job, result, jobs_processed, lastPoll, failure>>
    /\ UNCHANGED <<queue, nextId>>
    /\ UNCHANGED <<deleted, faults, foreign>>
    /\ UNCHANGED pubVars
    /\ UNCHANGED btVars

\* line 163: upload_blob raises
SaveFails(w) ==
    /\ pc[w] = "save"
    /\ faults < MaxFaults
    /\ faults' = faults + 1
    /\ Except(w, "save")
    /\ UNCHANGED lastPoll
    /\ UNCHANGED <<queue, nextId>>
    /\ UNCHANGED <<results, foreign>>
    /\ UNCHANGED pubVars
    /\ UNCHANGED btVars

\* lines 166-169: delete_message(message); jobs_processed += 1.  A pop
\* receipt that is no longer the valid one makes delete_message raise
Delete(w) ==
    /\ pc[w] = "delete"
    /\ IF CanDelete(queue, message[w], w)
       THEN /\ queue' = DeleteMessage(queue, message[w])
            /\ deleted' = deleted \cup {[id |-> message[w].id,
                                          content |-> message[w].content, by |-> w]}
            /\ jobs_processed' = [jobs_processed EXCEPT ![w] = @ + 1]
            /\ pc' = [pc EXCEPT ![w] = "poll"]
            /\ Forget(w)
            /\ UNCHANGED failure
       ELSE /\ Except(w, "delete")
            /\ UNCHANGED queue
    /\ UNCHANGED lastPoll
    /\ UNCHANGED nextId
    /\ UNCHANGED <<results, faults, foreign>>
    /\ UNCHANGED pubVars
    /\ UNCHANGED btVars

\* line 166: delete_message raises though the pop receipt is valid
DeleteFails(w) ==
    /\ pc[w] = "delete"
    /\ faults < MaxFaults
    /\ faults' = faults + 1
    /\ Except(w, "delete")
    /\ UNCHANGED lastPoll
    /\ UNCHANGED <<queue, nextId>>
    /\ UNCHANGED <<results, foreign>>
    /\ UNCHANGED pubVars
    /\ UNCHANGED btVars

Worker(w) ==
    \/ PollEmpty(w)
    \/ PollMessage(w)
    \/ PollFails(w)
    \/ LoadFails(w)
    \/ Save(w)
    \/ SaveFails(w)
    \/ Delete(w)
    \/ DeleteFails(w)

Next ==
    \/ Producer
    \/ \E w \in Workers : Worker(w)
    \/ Expire

Spec == Init /\ [][Next]_vars

-----------------------------------------------------------------------------
(* The workers start once the producer has enqueued every job: main has run  *)
(* to its end without a failure, the queue holds the producer's messages and *)
(* nothing else, and no worker has polled yet                                *)

DrainInit ==
    /\ fast_range = FAST_RANGE
    /\ slow_range = SLOW_RANGE
    /\ coins = AvailableCoins
    /\ jobs = generate_jobs(coins, fast_range, slow_range)
    /\ pubPc = "done"
    /\ pubIdx = Len(jobs) + 1
    /\ sent = [k \in 1..Len(jobs) |-> JobPayload(jobs[k])]
    /\ queue = {[id |-> k, content |-> JobPayload(jobs[k]), lease |-> 0,
                 owner |-> NoOwner] : k \in 1..Len(jobs)}
    /\ nextId = Len(jobs) + 1
    /\ foreign = 0
    /\ StoreInit
    /\ WorkerInit
    /\ BtIdle(<<>>)

DrainNext ==
    \/ \E w \in Workers : Worker(w)
    \/ Expire

DrainSpec == DrainInit /\ [][DrainNext]_vars

-----------------------------------------------------------------------------
(* Every job is finished within its visibility timeout and nothing fails:    *)
(* no lease runs out, no call raises, only the producer fills the queue      *)

OnTimeInit == Init /\ foreign = 0

OnTimeWorker(w) ==
    \/ PollEmpty(w)
    \/ PollMessage(w)
    \/ Save(w)
    \/ Delete(w)

OnTimeNext ==
    \/ Main
    \/ PushJob
    \/ \E w \in Workers : OnTimeWorker(w)

OnTimeSpec == OnTimeInit /\ [][OnTimeNext]_vars

-----------------------------------------------------------------------------
(* The producer alone, on any coin list and any pair of ranges *)

\* the lists get_available_coins() can return: blob names, each once
CoinLists ==
    {<<>>} \cup {<<c>> : c \in CoinNames}
           \cup {<<c, d>> : <<c, d>> \in {p \in CoinNames \X CoinNames : p[1] # p[2]}}

\* the increasing lists of windows up to MaxWindow
RangeLists ==
    {r \in UNION {[1..n -> 1..MaxWindow] : n \in 0..MaxWindow} :
        \A k \in 1..(Len(r) - 1) : r[k] < r[k + 1]}

PubInit ==
    /\ fast_range \in RangeLists
    /\ slow_range \in RangeLists
    /\ coins \in CoinLists
    /\ ProducerInit
    /\ StoreInit
    /\ queue = {}
    /\ foreign = 0
    /\ nextId = 1
    /\ WorkerInit
    /\ BtIdle(<<>>)

PubNext == Producer

PubSpec == PubInit /\ [][PubNext]_vars

-----------------------------------------------------------------------------
(* run_backtest alone, called again and again on one price series with any   *)
(* pair of windows                                                           *)

\* the closes of the series tried
Closes == {1, 2}

\* a series with closes below zero
NegativeSeries == <<-1, 1, -1>>

\* closes with a long opened at 100 and closed at 110 (windows 2 and 3)
ExampleSeries == <<100, 200, 100, 110>>

SeriesSet ==
    UNION {[1..n -> Closes] : n \in 0..MaxLen} \cup {NegativeSeries, ExampleSeries}

WindowSet == 1..MaxWindow

BacktestInit ==
    /\ fast_range = FAST_RANGE
    /\ slow_range = SLOW_RANGE
    /\ coins = AvailableCoins
    /\ ProducerInit
    /\ StoreInit
    /\ queue = {}
    /\ foreign = 0
    /\ nextId = 1
    /\ WorkerInit
    /\ \E close \in SeriesSet : BtIdle(close)

BtCall == \E fast_ma \in WindowSet : \E slow_ma \in WindowSet : BtStart(fast_ma, slow_ma)

BacktestNext == BtCall \/ BtRow \/ BtReturn

BacktestSpec == BacktestInit /\ [][BacktestNext]_vars

-----------------------------------------------------------------------------
(* Properties *)

Elems(seq) == {seq[k] : k \in 1..Len(seq)}
Ids(q) == {m.id : m \in q}

\* the blob name of the job a payload encodes
ArtifactName(content) ==
    LET j == JsonLoads(content)
    IN  j["coin"].str \o "_" \o ToString(j["fast_ma"].num) \o "_"
            \o ToString(j["slow_ma"].num) \o ".json"

\* the artifact one processing of job j stores
ExpectedArtifact(j) ==
    LET r == process_job(JsonLoads(JobPayload(j)))
    IN  [name |-> ArtifactName(JobPayload(j)), data |-> JsonDumps(r)]

\* the jobs of the program's ranges and coins, and their artifacts
ProgramJobs == Elems(generate_jobs(AvailableCoins, FAST_RANGE, SLOW_RANGE))
ProgramArtifacts == {ExpectedArtifact(j) : j \in ProgramJobs}

\* the key of job j as a blob name
JobKey(j) ==
    j.coin \o "_" \o ToString(j.fast_ma) \o "_" \o ToString(j.slow_ma) \o ".json"

OnePerKey(container) ==
    \A b1 \in container : \A b2 \in container : b1.name = b2.name => b1 = b2

\* worker w's step is a receive_messages that hands it a message
ReceivedBy(w) ==
    /\ pc[w] = "poll"
    /\ \E m \in Visible(queue) : queue' = Lease(queue, m, w)

\* C1: a worker that has observed an empty poll is Terminated, and a
\* Terminated worker stays so: it never polls again, takes no lease and
\* changes nothing of its own.
C1_TerminatedAfterEmptyPoll ==
    /\ [](\A w \in Workers : lastPoll[w] = "empty" => pc[w] = "terminated")
    /\ [][\A w \in Workers :
            pc[w] = "terminated" =>
                /\ pc'[w] = "terminated"
                /\ lastPoll'[w] = "empty"
                /\ message'[w] = message[w]
                /\ jobs_processed'[w] = jobs_processed[w]
                /\ ~ReceivedBy(w)
                /\ \A m \in queue' : m.owner = w =>
                      \E n \in queue : n.id = m.id /\ n.owner = w]_vars

C1_Witness ==
    \E w \in Workers :
        /\ pc[w] = "terminated"
        /\ jobs_processed[w] >= 1
        /\ queue # {}

\* C2: every message removed by delete_message was decoded and processed and
\* has its artifact in the store; a worker about to call delete_message has
\* decoded its message, computed its result and stored it under the job's key.
C2_DeletedOnlyAfterStored ==
    /\ \A d \in deleted :
          /\ TryError(d.content) = "none"
          /\ \E b \in results : b.name = ArtifactName(d.content)
          /\ d.id \notin Ids(queue)
    /\ \A w \in Workers :
          pc[w] = "delete" =>
              /\ TryError(message[w].content) = "none"
              /\ job[w] = JsonLoads(message[w].content)
              /\ result[w] = process_job(job[w])
              /\ [name |-> ArtifactName(message[w].content),
                  data |-> JsonDumps(result[w])] \in results

C2_Witness ==
    /\ deleted # {}
    /\ \E w \in Workers : pc[w] = "delete"

\* the steps of an iteration C3 is about
C3_Steps == {"decode", "key", "load", "compute", "save"}

\* worker w's step is one where a step of C3_Steps fails
C3_FailingStep(w) ==
    /\ failure'[w] \in C3_Steps
    /\ ReceivedBy(w) \/ (pc[w] = "save" /\ pc'[w] # "delete")

\* C3: when decode, load_price_data, run_backtest or save_result fails, the
\* worker deletes no message, counts nothing, does not terminate and is at
\* its next poll; the message stays in the queue, leased if the worker just
\* received it, and no poll reports an empty queue while a message whose
\* lease has run out is in it.
C3_FailureAbandonsMessage ==
    /\ [][\A w \in Workers :
            C3_FailingStep(w) =>
                /\ pc'[w] = "poll"
                /\ jobs_processed' = jobs_processed
                /\ deleted' = deleted
                /\ Ids(queue') = Ids(queue)
                /\ results' = results
                /\ ReceivedBy(w) =>
                      \E m \in queue' : m.owner = w /\ m.lease = VisibilityTimeout]_vars
    /\ [][\A w \in Workers :
            (pc[w] = "poll" /\ lastPoll'[w] = "empty") => Visible(queue) = {}]_vars

C3_Witness ==
    \E w1 \in Workers : \E w2 \in Workers :
        /\ failure[w1] = "save"
        /\ failure[w2] \in {"decode", "compute"}
        /\ pc[w2] = "poll"
        /\ queue # {}

\* C4: a worker whose loop has ended had no message from its latest poll.
C4_EmptyPollSoleExit ==
    \A w \in Workers : pc[w] \in {"terminated", "crashed"} => lastPoll[w] = "empty"

\* every job the producer generated has its artifact and no message any more
AllDone ==
    /\ pubPc = "done"
    /\ \A k \in 1..Len(jobs) :
          /\ \E b \in results : b.name = ArtifactName(JobPayload(jobs[k]))
          /\ \A m \in queue : m.content # JobPayload(jobs[k])

\* C5: with all jobs enqueued before the workers start and only transient
\* failures (at most MaxFaults of them), the workers drive the system to
\* completion: once every worker's loop has ended on an empty poll, when
\* nothing can process a job any more, every job has its artifact stored and
\* its message deleted.
C5_Completion ==
    (\A w \in Workers : pc[w] = "terminated") => AllDone

\* C6: whatever the deliveries of a job, the store holds under the job's key
\* the artifact one processing of it stores, and nothing else.
C6_DuplicateDeliverySafe ==
    /\ OnePerKey(results)
    /\ \A b \in results :
          /\ b \in ProgramArtifacts
          /\ \E k \in 1..Len(jobs) : jobs[k] \in ProgramJobs /\ b.name = JobKey(jobs[k])

C6_Witness ==
    \E w1 \in Workers : \E w2 \in Workers :
        /\ w1 # w2
        /\ pc[w1] = "delete"
        /\ pc[w2] = "delete"
        /\ message[w1].id = message[w2].id

\* results save_result may be given for job j: its parameters, any metrics
ResultOf(j, trades) ==
    << <<"total_return", [frac |-> <<0, 1>>]>>,
       <<"num_trades", [num |-> trades]>>,
       <<"win_rate", [frac |-> <<0, 1>>]>>,
       <<"coin", [str |-> j.coin]>>,
       <<"fast_ma", [num |-> j.fast_ma]>>,
       <<"slow_ma", [num |-> j.slow_ma]>> >>

C7_Results == {ResultOf(jobs[k], n) : k \in 1..Len(jobs), n \in {0, 1}}

\* C7: the store holds one artifact per key; save_result replaces the
\* artifact of the result's key, leaves the others, and a second call with
\* the same result changes nothing.
C7_SaveIdempotent ==
    /\ OnePerKey(results)
    /\ \A r \in C7_Results :
          LET once == save_result(results, r)
              twice == save_result(once, r)
              name == BlobName(r)
          IN  /\ twice = once
              /\ OnePerKey(once)
              /\ [name |-> name, data |-> JsonDumps(r)] \in once
              /\ \A b \in results : b.name # name => b \in once
              /\ \A b \in once : b.name # name => b \in results

C7_Witness ==
    /\ Cardinality(results) >= 2
    /\ \E r \in C7_Results : \E b \in results :
          b.name = BlobName(r) /\ b.data # JsonDumps(r)

\* the pairs generate_jobs has to keep
ValidPairs == {p \in Elems(fast_range) \X Elems(slow_range) : p[1] < p[2]}

\* position of x in the duplicate-free list seq
IndexOf(seq, x) == CHOOSE k \in 1..Len(seq) : seq[k] = x

\* job a comes before job b in the order coin, fast, slow of the inputs
Before(a, b) ==
    LET ca == IndexOf(coins, a.coin)
        cb == IndexOf(coins, b.coin)
    IN  \/ ca < cb
        \/ ca = cb /\ a.fast_ma < b.fast_ma
        \/ ca = cb /\ a.fast_ma = b.fast_ma /\ a.slow_ma < b.slow_ma

\* C8: generate_jobs returns |coins| * |{(f, s) : f < s}| jobs, each with
\* fast_ma < slow_ma, every such triple once, in the order of the inputs.
C8_GenerateJobs ==
    pubPc \in {"push", "done", "failed"} =>
        /\ Len(jobs) = Len(coins) * Cardinality(ValidPairs)
        /\ \A k \in 1..Len(jobs) :
              /\ jobs[k].fast_ma < jobs[k].slow_ma
              /\ jobs[k].coin \in Elems(coins)
              /\ <<jobs[k].fast_ma, jobs[k].slow_ma>> \in ValidPairs
        /\ \A c \in Elems(coins) : \A p \in ValidPairs :
              \E k \in 1..Len(jobs) : jobs[k] = JobDict(c, p[1], p[2])
        /\ \A k1 \in 1..Len(jobs) : \A k2 \in 1..Len(jobs) :
              k1 < k2 => Before(jobs[k1], jobs[k2])

C8_Witness ==
    /\ pubPc = "push"
    /\ Len(coins) = 2
    /\ Len(jobs) >= 4
    /\ \E f \in Elems(fast_range) : \E s \in Elems(slow_range) : f >= s

\* C9: when the submission of a job fails, every other job of the list has
\* been or is submitted; the producer does nothing after the failure.
C9_IndependentSubmission ==
    pubPc = "failed" =>
        \A j \in 1..Len(jobs) :
            j # pubIdx => \E k \in 1..Len(sent) : sent[k] = JobPayload(jobs[j])

\* C10: when push_jobs_to_queue returns and no submission failed, every job
\* was sent exactly once and nothing else was sent, and each message decodes
\* to its job.
C10_EnqueuedExactlyOnce ==
    pubPc = "done" =>
        /\ Len(sent) = Len(jobs)
        /\ \A j \in 1..Len(jobs) :
              /\ Cardinality({k \in 1..Len(sent) : sent[k] = JobPayload(jobs[j])}) = 1
              /\ Cardinality({m \in queue : m.content = JobPayload(jobs[j])}) = 1
        /\ \A k \in 1..Len(sent) :
              /\ JsonValid(sent[k])
              /\ \E j \in 1..Len(jobs) :
                    LET d == JsonLoads(sent[k])
                    IN  /\ d["coin"].str = jobs[j].coin
                        /\ d["fast_ma"].num = jobs[j].fast_ma
                        /\ d["slow_ma"].num = jobs[j].slow_ma
        /\ Cardinality(queue) = Len(jobs)

C10_Witness ==
    /\ pubPc = "done"
    /\ faults = 0
    /\ Len(jobs) >= 3

\* the arguments of the call of run_backtest under way or just over
BtClose == frames["prices"].close
BtFast == windows.fast_ma
BtSlow == windows.slow_ma

AllPositive(close) == \A i \in 1..Len(close) : close[i] > 0

\* num_trades >= 0 and whole, 0 <= win_rate <= 1, total_return > -1
ResultInRange(r) ==
    /\ r.num_trades \in Nat
    /\ r.win_rate[1] >= 0
    /\ r.win_rate[1] <= r.win_rate[2]
    /\ r.total_return[1] > -r.total_return[2]

TradeRealised(close, fast_ma, slow_ma) ==
    \E i \in 1..Len(close) : \E j \in (i + 1)..Len(close) :
        /\ KeptRow(i, fast_ma, slow_ma)
        /\ Signal(close, i, fast_ma, slow_ma) = 1
        /\ Signal(close, j, fast_ma, slow_ma) = -1

\* C12: run_backtest returns {total_return: 0, num_trades: 0, win_rate: 0}
\* for a series with fewer than slow_ma periods, the empty one included, and
\* whenever no trade is realised.
C12_NeutralRecord ==
    (/\ btPc = "returned"
     /\ \/ Len(BtClose) < BtSlow
        \/ ~TradeRealised(BtClose, BtFast, BtSlow))
    => returned = [total_return |-> <<0, 1>>, num_trades |-> 0, win_rate |-> <<0, 1>>]

C12_Witness ==
    /\ btPc = "returned"
    /\ BtFast < BtSlow
    /\ Len(BtClose) = BtSlow - 1
    /\ Len(BtClose) >= BtFast
    /\ again

\* C13: whatever calls came before, a call of run_backtest returns what
\* run_backtest is on its arguments alone, so two calls with the same series
\* and windows return the same; no step of a call changes the frame `prices`
\* the caller handed in.
C13_DeterministicStateless ==
    /\ [](btPc = "returned" => returned = run_backtest(BtClose, BtFast, BtSlow))
    /\ [][frames'["prices"] = frames["prices"]]_vars

C13_Witness ==
    /\ btPc = "returned"
    /\ again
    /\ returned.num_trades >= 1
    /\ frames["df"] # frames["prices"]

\* the signal of the row the next pass of the loop is on
NextSignal ==
    Signal(frames["df"].close, frames["df"].index[rowsDone + 1], BtFast, BtSlow)

\* the step is a pass of the loop of run_backtest
ScanStep == btPc = "scan" /\ rowsDone' = rowsDone + 1

\* C15: the position is flat (0) or long (1) and flat when the scan starts;
\* a pass of the loop opens it exactly on a long signal while flat, closes it
\* exactly on a short signal while long and leaves it otherwise; it records a
\* trade exactly when it closes the position.  So the trades are as many as
\* the closes, opens minus closes is the position, 0 or 1, and num_trades
\* counts the closes: an open position at the end adds no trade.
C15_FlatOrLong ==
    /\ [](/\ scanState.position \in {0, 1}
          /\ btPc = "scan" /\ rowsDone = 0 =>
                scanState.position = 0 /\ scanState.trades = <<>>
          /\ btPc = "scan" =>
                /\ Len(scanState.trades) = counts.closes
                /\ counts.opens - counts.closes = scanState.position
          /\ btPc = "returned" /\ Len(frames["df"].index) > 0 =>
                returned.num_trades = counts.closes)
    /\ [][ScanStep =>
            LET opened == scanState.position = 0 /\ scanState'.position = 1
                closed == scanState.position = 1 /\ scanState'.position = 0
            IN  /\ opened <=> (NextSignal = 1 /\ scanState.position = 0)
                /\ closed <=> (NextSignal = -1 /\ scanState.position = 1)
                /\ opened \/ closed \/ scanState'.position = scanState.position
                /\ closed => Len(scanState'.trades) = Len(scanState.trades) + 1
                /\ ~closed => scanState'.trades = scanState.trades]_vars

C15_Witness ==
    /\ btPc = "returned"
    /\ counts.opens = 2
    /\ counts.closes = 1
    /\ scanState.position = 1
    /\ returned.num_trades = 1

\* The reference computation.  The signal of a period that takes part in the
\* scan, 0 for the others
KeptSignal(close, i, fast_ma, slow_ma) ==
    IF KeptRow(i, fast_ma, slow_ma) THEN Signal(close, i, fast_ma, slow_ma) ELSE 0

\* long after period i: a long signal at or before i with no short one since
LongAfter(close, i, fast_ma, slow_ma) ==
    \E o \in 1..i :
        /\ KeptSignal(close, o, fast_ma, slow_ma) = 1
        /\ \A k \in (o + 1)..i : KeptSignal(close, k, fast_ma, slow_ma) # -1

\* the periods that close a position
RefCloses(close, fast_ma, slow_ma) ==
    {j \in 2..Len(close) :
        /\ KeptSignal(close, j, fast_ma, slow_ma) = -1
        /\ LongAfter(close, j - 1, fast_ma, slow_ma)}

\* the period that opened the position open before period j
RefOpen(close, j, fast_ma, slow_ma) ==
    CHOOSE o \in 1..(j - 1) :
        /\ KeptSignal(close, o, fast_ma, slow_ma) = 1
        /\ ~LongAfter(close, o - 1, fast_ma, slow_ma)
        /\ \A k \in (o + 1)..(j - 1) : KeptSignal(close, k, fast_ma, slow_ma) # -1

\* the closing periods in order
RefCloseList(close, fast_ma, slow_ma) ==
    LET cs == RefCloses(close, fast_ma, slow_ma)
    IN  [k \in 1..Cardinality(cs) |->
            CHOOSE j \in cs : Cardinality({j2 \in cs : j2 < j}) = k - 1]

\* exit and entry of the trade closed at period j, in thousandths
RefExit(close, j) == close[j] * (1000 - FeePerMille)
RefEntry(close, o) == close[o] * (1000 + FeePerMille)

\* C16: when a trade is realised, the result is the reference computation:
\* one trade for each position closed, in order, with return
\* (exit - entry) / entry for entry = close * (1 + fee) at the opening period
\* and exit = close * (1 - fee) at the closing period; total_return is the
\* product of the (1 + return) = exit / entry less 1, win_rate the share of
\* trades with a positive return.  Closes 100 then 110 give entry 100.1, one
\* trade of return 9.79 / 100.1 = 89/910 and win_rate 1.
C16_ReferenceResult ==
    LET cl == RefCloseList(BtClose, BtFast, BtSlow)
        n == Len(cl)
        en(k) == RefEntry(BtClose, RefOpen(BtClose, cl[k], BtFast, BtSlow))
        ex(k) == RefExit(BtClose, cl[k])
        ret(k) == Frac(ex(k) - en(k), en(k))
        growth[k \in 0..n] ==
            IF k = 0 THEN <<1, 1>>
            ELSE Frac(growth[k - 1][1] * ex(k), growth[k - 1][2] * en(k))
        wins == Cardinality({k \in 1..n : \/ ex(k) > en(k) /\ en(k) > 0
                                          \/ ex(k) < en(k) /\ en(k) < 0})
    IN  /\ (btPc = "returned" /\ n >= 1) =>
              /\ returned.num_trades = n
              /\ Len(scanState.trades) = n
              /\ \A k \in 1..n : scanState.trades[k] = ret(k)
              /\ FAdd(returned.total_return, <<1, 1>>) = growth[n]
              /\ returned.win_rate = Frac(wins, n)
        /\ (btPc = "scan" /\ scanState.position = 1) =>
              \E o \in 1..Len(BtClose) :
                  /\ KeptSignal(BtClose, o, BtFast, BtSlow) = 1
                  /\ scanState.entry_price = Frac(RefEntry(BtClose, o), 1000)
        /\ (btPc = "returned" /\ BtClose = ExampleSeries /\ BtFast = 2 /\ BtSlow = 3) =>
              /\ scanState.entry_price = <<1001, 10>>
              /\ returned = [total_return |-> <<89, 910>>, num_trades |-> 1,
                              win_rate |-> <<1, 1>>]

C16_Witness ==
    /\ btPc = "returned"
    /\ returned.num_trades = 2
    /\ returned.total_return[1] # 0
    /\ again

\* the series that agree with close on the first k periods
AgreeingSeries(close, k) ==
    {SubSeq(close, 1, k) \o t : t \in UNION {[1..m -> Closes] : m \in 0..(MaxLen - k)}}

\* the period the scan has come to
ScanPeriod == IF rowsDone = 0 THEN 0 ELSE frames["df"].index[rowsDone]

\* C17: the rows of df are the periods where both means are defined, and when
\* the scan has processed period k, every series that agrees with the one
\* scanned on its first k periods has the same means and signals up to k and
\* leaves the scan with the same position, entry price and trades.
C17_NoLookAhead ==
    btPc = "scan" =>
        /\ \A i \in 1..Len(BtClose) :
              (\E r \in 1..Len(frames["df"].index) : frames["df"].index[r] = i)
                  <=> (i >= BtFast /\ i >= BtSlow)
        /\ \A r \in 1..(Len(frames["df"].index) - 1) :
              frames["df"].index[r] < frames["df"].index[r + 1]
        /\ rowsDone >= 1 =>
              \A other \in AgreeingSeries(BtClose, ScanPeriod) :
                  /\ \A i \in 1..ScanPeriod :
                        /\ i >= BtFast =>
                              RollingMean(other, i, BtFast) = RollingMean(BtClose, i, BtFast)
                        /\ i >= BtSlow =>
                              RollingMean(other, i, BtSlow) = RollingMean(BtClose, i, BtSlow)
                        /\ KeptRow(i, BtFast, BtSlow) =>
                              Signal(other, i, BtFast, BtSlow)
                                  = Signal(BtClose, i, BtFast, BtSlow)
                  /\ ScanTo(other, ScanPeriod, BtFast, BtSlow) = scanState

C17_Witness ==
    /\ btPc = "scan"
    /\ rowsDone = 2
    /\ ScanPeriod < Len(BtClose)
    /\ Len(scanState.trades) = 1
    /\ \E other \in AgreeingSeries(BtClose, ScanPeriod) :
          /\ Len(other) = Len(BtClose)
          /\ run_backtest(other, BtFast, BtSlow) # run_backtest(BtClose, BtFast, BtSlow)

\* worker w holds message number id under a lease that has not run out
HoldsLease(w, id) ==
    /\ pc[w] \in {"save", "delete"}
    /\ message[w].id = id
    /\ \E m \in queue : m.id = id /\ m.owner = w /\ m.lease > 0

\* the message the queue hands to worker w in this step
Handed(w) == {n \in queue' \ queue : n.owner = w /\ n.lease = VisibilityTimeout}

\* C14: no two workers hold a lease that has not run out on the same
\* message; the queue hands a worker only a message that is in the queue (not
\* deleted) and whose earlier lease, if any, has run out.
C14_OneLeaseHolder ==
    /\ [](\A id \in Ids(queue) :
            Cardinality({w \in Workers : HoldsLease(w, id)}) <= 1)
    /\ [][\A w \in Workers : \A n \in Handed(w) :
            /\ \E m \in queue : m.id = n.id /\ m.lease = 0
            /\ \A w2 \in Workers : ~HoldsLease(w2, n.id)]_vars

C14_Witness ==
    \E w1 \in Workers : \E w2 \in Workers :
        /\ w1 # w2
        /\ pc[w1] = "save"
        /\ message[w1].id = message[w2].id
        /\ HoldsLease(w2, message[w2].id)

\* C18: when no lease runs out and no call fails, the queue hands a worker
\* only a message no worker was handed before, a save writes an artifact
\* whose key had none, no message is deleted twice, and no iteration of a
\* worker ends in the exception handler.
C18_NoDuplicateDelivery ==
    /\ [][\A w \in Workers : \A n \in Handed(w) :
            \E m \in queue : m.id = n.id /\ m.owner = NoOwner]_vars
    /\ [][results' # results =>
            \E b \in results' :
                /\ results' = results \cup {b}
                /\ \A old \in results : old.name # b.name]_vars
    /\ [](\A d1 \in deleted : \A d2 \in deleted : d1.id = d2.id => d1 = d2)
    /\ [](\A w \in Workers : failure[w] = "none")

C18_Witness ==
    /\ Cardinality(results) = 2
    /\ Cardinality({d.by : d \in deleted}) = 2
    /\ queue = {}
    /\ \A w \in Workers : pc[w] = "terminated"

\* C19: a worker's jobs_processed is the number of messages it has deleted;
\* it grows by one, in the step where that worker deletes from the queue a
\* message the queue handed to it, and in no other step; the workers'
\* counters together stay within the number of messages ever enqueued.
C19_CounterMatchesDeletes ==
    /\ [](/\ \A w \in Workers :
                jobs_processed[w] = Cardinality({d \in deleted : d.by = w})
          /\ Cardinality({d.id : d \in deleted}) = Cardinality(deleted)
          /\ Cardinality(deleted) <= nextId - 1
          /\ \A d \in deleted : d.id \in 1..(nextId - 1) /\ d.id \notin Ids(queue))
    /\ [][\A w \in Workers :
            jobs_processed'[w] # jobs_processed[w] =>
                /\ jobs_processed'[w] = jobs_processed[w] + 1
                /\ pc[w] = "delete"
                /\ lastPoll[w] = "message"
                /\ \E m \in queue : m.id = message[w].id /\ m.owner = w
                /\ queue' = {m \in queue : m.id # message[w].id}]_vars

C19_Witness ==
    \E w \in Workers :
        /\ jobs_processed[w] = 1
        /\ failure[w] = "delete"
        /\ Cardinality(deleted) = 2
        /\ foreign = 1

\* the token that follows the key in a JSON text
TokenOf(text, key) == text[1 + CHOOSE i \in 1..Len(text) : text[i] = Quote(key)]

\* C20: when only the producer fills the queue, every artifact in the store
\* is named by the triple of a job that was enqueued, holds that coin,
\* fast_ma and slow_ma, and has fast_ma < slow_ma.
C20_ArtifactsOfEnqueuedJobs ==
    foreign = 0 =>
        \A b \in results :
            \E k \in 1..Len(sent) :
                /\ sent[k] = JobPayload(jobs[k])
                /\ b.name = jobs[k].coin \o "_" \o ToString(jobs[k].fast_ma) \o "_"
                                \o ToString(jobs[k].slow_ma) \o ".json"
                /\ TokenOf(b.data, "coin") = Quote(jobs[k].coin)
                /\ TokenOf(b.data, "fast_ma") = ToString(jobs[k].fast_ma)
                /\ TokenOf(b.data, "slow_ma") = ToString(jobs[k].slow_ma)
                /\ jobs[k].fast_ma < jobs[k].slow_ma

C20_Witness ==
    /\ foreign = 0
    /\ Cardinality(results) = 2
    /\ \E w \in Workers : failure[w] # "none"

====
